---- MODULE Spec2Model ----
(***************************************************************************)
(* Model of bench.h (MicroBench): the process-wide benchmark store, the    *)
(* START_TIMING / END_TIMING recorder and the three reporters.             *)
(***************************************************************************)
EXTENDS Integers, Sequences, FiniteSets, TLC

(* ---- sizes -------------------------------------------------------------*)
\* bench.h:46 sets 600 and bench.h:47 sets 100; the model shrinks both.
MAX_FUNS_TO_BENCH == 3
MAX_FUNS_NAME_LENGTH == 3
BAR_LENGTH == 20
INT_MAX == 2147483647
INT_MIN == (-INT_MAX) - 1
\* largest reading of the monotonic clock the model explores
MaxClock == 2

(* ---- inputs ------------------------------------------------------------*)
NUL == "NUL"
\* labels handed to END_TIMING; the last one does not fit the name buffer
Labels == { <<"a">>, <<"a", "b", "c", "d", "e">> }

VARIABLES
    total_time,     \* benchmarks.total_time
    start_time,     \* benchmarks.start_time
    timings,        \* benchmarks.timings[0..MAX_FUNS_TO_BENCH)
    timing_index,   \* benchmarks.timing_index
    clock,          \* last reading returned by CLOCK_MONOTONIC, in us
    nan_to_int,     \* what this build's (int)NaN conversion yields: the
                    \* conversion is undefined; x86 gives INT_MIN, ARM 0
    op,             \* the call that ran last
    reranked,       \* it and the call before it were both print_bench_ranked
    out,            \* lines the last call wrote to stdout
    err,            \* lines the last call wrote to stderr
    divs,           \* divisions the last call performed
    sorts,          \* number of qsort calls the last call made
    written,        \* index of timings[] the last call stored to, or -1
    protocol,       \* how the calls since benchmark_init went: "idle" after
                    \* whole START/END pairs only, "started" after such
                    \* pairs and one START_TIMING, "other" otherwise
    mark,           \* clock reading handed to the last START_TIMING
    hist,           \* the START/END pairs made while the protocol is kept
    arg,            \* the arguments of a function applied on its own, as a
                    \* tuple; <<>> when none is
    ret,            \* << what the function left >>; <<>> before it ran
    discarded,      \* the start mark the last START_TIMING overwrote while
                    \* no END_TIMING had used it; -1 when there is none
    thr,            \* per thread: pc, the line of bench.h it is at; its
                    \* local end_time; reg, the value it has computed and
                    \* not yet stored; from, the thread whose mark its
                    \* duration was taken from; alone, whether every other
                    \* thread was outside its calls when it began
    mark_by         \* the thread whose START_TIMING wrote start_time last

store == <<total_time, start_time, timings, timing_index>>
calls == <<protocol, mark, hist>>
bench == <<total_time, start_time, timings, timing_index, clock, nan_to_int,
           op, reranked, out, err, divs, sorts, written, protocol, mark, hist>>
threads == <<thr, mark_by>>
aux == <<arg, ret, discarded, thr, mark_by>>
vars == <<bench, aux>>

(* ---- helpers -----------------------------------------------------------*)
Min(a, b) == IF a < b THEN a ELSE b
Max(a, b) == IF a > b THEN a ELSE b

RECURSIVE Pow10(_)
Pow10(n) == IF n <= 0 THEN 1 ELSE 10 * Pow10(n - 1)

RECURSIVE SumTimes(_, _)
\* sum of time_us over t[0..n)
SumTimes(t, n) == IF n = 0 THEN 0 ELSE t[n - 1].time_us + SumTimes(t, n - 1)

\* the entries t[0..n) as a bag
EntryBag(t, n) ==
    [e \in {t[i] : i \in 0 .. n - 1} |-> Cardinality({i \in 0 .. n - 1 : t[i] = e})]

Abs(x) == IF x < 0 THEN -x ELSE x

\* a - b in int arithmetic for a >= 0; past INT_MAX the result wraps
SubInt(a, b) ==
    IF b < a - INT_MAX THEN (a + INT_MIN) - (b - INT_MIN) ELSE a - b

\* x / d rounded to the nearest integer, halves away from zero (d > 0)
RoundDiv(x, d) ==
    IF x >= 0 THEN (2 * x + d) \div (2 * d) ELSE -((2 * (-x) + d) \div (2 * d))

\* x / d truncated toward zero (d > 0), as a conversion to int does
TruncDiv(x, d) == IF x >= 0 THEN x \div d ELSE -((-x) \div d)

(* ---- types -------------------------------------------------------------*)
\* char function_name[MAX_FUNS_NAME_LENGTH], zero-filled (static storage)
EmptyName == [k \in 0 .. MAX_FUNS_NAME_LENGTH - 1 |-> NUL]

\* time_info
time_info(t, name) == [time_us |-> t, function_name |-> name]

\* static const scale scales[scale_count]: suffix and power of ten
scale_nano_idx == 0
scale_micro_idx == 1
scale_count == 8
scales == [i \in 0 .. scale_count - 1 |->
             [suffix |-> <<"n", "u", "m", "", "k", "M", "G", "T">>[i + 1],
              exp10  |-> 3 * i - 9]]

(* ---- string handling ---------------------------------------------------*)
RECURSIVE StrLenFrom(_, _)
\* number of characters of buf[k..] before the first NUL (or the end)
StrLenFrom(buf, k) ==
    IF k > MAX_FUNS_NAME_LENGTH - 1 \/ buf[k] = NUL THEN 0
    ELSE 1 + StrLenFrom(buf, k + 1)

\* what printf("%s") prints for a name buffer
CStr(buf) == [k \in 1 .. StrLenFrom(buf, 0) |-> buf[k - 1]]

\* strncpy(dest, src, n): copies at most n characters, pads with NUL up to n
strncpy(dest, src, n) ==
    [k \in DOMAIN dest |->
        IF k < n THEN (IF k < Len(src) THEN src[k + 1] ELSE NUL)
        ELSE dest[k]]

\* lines 312-317 copying sizeof bytes and setting no terminator
StoreName_unterminated(dest, function_name) ==
    strncpy(dest, function_name, MAX_FUNS_NAME_LENGTH)

\* lines 312-317: bounded copy, then the terminator in the last byte
StoreName(dest, function_name) ==
    [strncpy(dest, function_name, MAX_FUNS_NAME_LENGTH - 1)
        EXCEPT ![MAX_FUNS_NAME_LENGTH - 1] = NUL]

(* ---- clock -------------------------------------------------------------*)
\* readings get_time_us may return now: CLOCK_MONOTONIC never goes back
get_time_us == clock .. MaxClock

(* ---- benchmark_init ----------------------------------------------------*)
\* benchmark_init without line 292
benchmark_init_keeps_index ==
    /\ total_time' = 0
    /\ start_time' = 0
    /\ UNCHANGED <<timing_index, timings, clock, nan_to_int>>
    /\ op' = "benchmark_init" /\ reranked' = FALSE
    /\ out' = <<>> /\ err' = <<>> /\ divs' = <<>> /\ sorts' = 0 /\ written' = -1
    /\ protocol' = "idle" /\ mark' = 0 /\ hist' = <<>>

benchmark_init ==
    /\ total_time' = 0
    /\ timing_index' = 0
    /\ start_time' = 0
    /\ UNCHANGED <<timings, clock, nan_to_int>>
    /\ op' = "benchmark_init" /\ reranked' = FALSE
    /\ out' = <<>> /\ err' = <<>> /\ divs' = <<>> /\ sorts' = 0 /\ written' = -1
    /\ protocol' = "idle" /\ mark' = 0 /\ hist' = <<>>

(* ---- START_TIMING ------------------------------------------------------*)
\* line 210 leaving alone a mark that no END_TIMING has used yet
START_TIMING_keeps_pending ==
    \E now \in get_time_us :
        /\ start_time' = (IF op = "START_TIMING" THEN start_time ELSE now)
        /\ clock' = now
        /\ UNCHANGED <<total_time, timings, timing_index, nan_to_int>>
        /\ op' = "START_TIMING" /\ reranked' = FALSE
        /\ out' = <<>> /\ err' = <<>> /\ divs' = <<>> /\ sorts' = 0 /\ written' = -1
        /\ mark' = now
        /\ protocol' = (IF protocol = "idle" THEN "started" ELSE "other")
        /\ hist' = (IF protocol = "idle" THEN hist ELSE <<>>)

\* line 210
START_TIMING ==
    \E now \in get_time_us :
        /\ start_time' = now
        /\ clock' = now
        /\ UNCHANGED <<total_time, timings, timing_index, nan_to_int>>
        /\ op' = "START_TIMING" /\ reranked' = FALSE
        /\ out' = <<>> /\ err' = <<>> /\ divs' = <<>> /\ sorts' = 0 /\ written' = -1
        /\ mark' = now
        /\ protocol' = (IF protocol = "idle" THEN "started" ELSE "other")
        /\ hist' = (IF protocol = "idle" THEN hist ELSE <<>>)

(* ---- record_timing (END_TIMING) ----------------------------------------*)
\* line 303, with the guard off by one / left out
AtCapacity_off_by_one(idx) == idx > MAX_FUNS_TO_BENCH
AtCapacity_never(idx) == FALSE
\* line 303
AtCapacity(idx) == idx >= MAX_FUNS_TO_BENCH

\* line 309, with the operands exchanged
Elapsed_swapped(end_time, start) == start - end_time
\* line 309 measuring from the previous clock reading, as if the mark were
\* moved by every call
Elapsed_since_last(end_time, start) == end_time - clock
\* line 309
Elapsed(end_time, start) == end_time - start

\* line 310, with = in place of +=
AddTotal_overwrite(total, t) == t
\* line 310
AddTotal(total, t) == total + t

\* benchmarks.timings[idx] read and written; an index past the end is
\* outside the array, so such a store does not land in timings[]
NameAt(arr, idx) == IF idx \in DOMAIN arr THEN arr[idx].function_name ELSE EmptyName
StoreAt(arr, idx, e) == IF idx \in DOMAIN arr THEN [arr EXCEPT ![idx] = e] ELSE arr

record_timing(function_name) ==
    IF AtCapacity(timing_index)
    THEN /\ UNCHANGED <<store, clock, nan_to_int>>
         /\ op' = "record_timing" /\ reranked' = FALSE
         /\ out' = <<>>
         /\ err' = << "Error: Exceeded maximum number of benchmarked functions!" >>
         /\ divs' = <<>> /\ sorts' = 0 /\ written' = -1
         /\ protocol' = "other" /\ hist' = <<>>
         /\ UNCHANGED mark
    ELSE \E end_time \in get_time_us :
         LET t == Elapsed(end_time, start_time)
             name == StoreName(NameAt(timings, timing_index), function_name)
         IN  /\ clock' = end_time
             /\ timings' = StoreAt(timings, timing_index, time_info(t, name))
             /\ total_time' = AddTotal(total_time, t)
             /\ timing_index' = timing_index + 1
             /\ UNCHANGED <<start_time, nan_to_int>>
             /\ op' = "record_timing" /\ reranked' = FALSE
             /\ out' = <<>> /\ err' = <<>> /\ divs' = <<>> /\ sorts' = 0
             /\ written' = timing_index
             /\ protocol' = (IF protocol = "started" THEN "idle" ELSE "other")
             /\ hist' = (IF protocol = "started"
                         THEN Append(hist, [label |-> function_name,
                                            t0 |-> mark, t1 |-> end_time])
                         ELSE <<>>)
             /\ UNCHANGED mark

END_TIMING == \E function_name \in Labels : record_timing(function_name)

(* ---- get_scale / format_scaled -----------------------------------------*)
\* a double is carried as m * 10^e, m an integer
Real(m, e) == [m |-> m, e |-> e]

RECURSIVE Digits(_)
\* number of decimal digits of n >= 1
Digits(n) == IF n < 10 THEN 1 ELSE 1 + Digits(n \div 10)

\* line 327-328: fabs(v / scales[i].scale_divisor) >= 1.0
ScaledAtLeastOne(v, i) ==
    v.m # 0 /\ Digits(Abs(v.m)) - 1 + v.e >= scales[i].exp10

RECURSIVE get_scale_scan(_, _)
\* lines 326-331 scanning upward from the nano scale
get_scale_scan_from_nano(v, i) ==
    IF \E j \in 0 .. i : ScaledAtLeastOne(v, j)
    THEN CHOOSE j \in 0 .. i :
            ScaledAtLeastOne(v, j) /\ \A k \in 0 .. j - 1 : ~ScaledAtLeastOne(v, k)
    ELSE -1

\* lines 326-331: the index the downward scan stops at, -1 if it runs out
get_scale_scan(v, i) ==
    IF i < 0 THEN -1
    ELSE IF ScaledAtLeastOne(v, i) THEN i
    ELSE get_scale_scan(v, i - 1)

get_scale(v) ==
    IF v.m = 0 THEN scale_nano_idx
    ELSE LET i == get_scale_scan(v, scale_count - 1)
         IN  IF i >= 0 THEN i ELSE scale_nano_idx

\* divisions get_scale performs: one per scale it looks at (line 327)
get_scale_divs(v) ==
    IF v.m = 0 THEN <<>>
    ELSE LET i == get_scale_scan(v, scale_count - 1)
             n == IF i >= 0 THEN scale_count - i ELSE scale_count
         IN  [k \in 1 .. n |-> [line |-> 327, by_zero |-> FALSE]]

\* "%7.3f": the value in thousandths, rounded
Fixed3(v) ==
    IF v.e + 3 >= 0 THEN v.m * Pow10(v.e + 3)
    ELSE RoundDiv(v.m, Pow10(-(v.e + 3)))

\* lines 335-339: the text snprintf leaves in the buffer
format_scaled(val, unit) ==
    LET s == get_scale(val)
        scaled == Real(val.m, val.e - scales[s].exp10)
    IN  [thousandths |-> Fixed3(scaled), suffix |-> scales[s].suffix, unit |-> unit]

format_scaled_divs(val) == get_scale_divs(val) \o << [line |-> 337, by_zero |-> FALSE] >>

(* ---- percentages -------------------------------------------------------*)
\* (double)t * 100.0 / d and (double)t / d * 100.0 as IEEE doubles
Percentage(t, d) ==
    IF d = 0
    THEN [cls |-> IF t = 0 THEN "nan" ELSE IF t > 0 THEN "inf" ELSE "-inf",
          num |-> 0, den |-> 1]
    ELSE [cls |-> "finite", num |-> IF d > 0 THEN 100 * t ELSE -(100 * t), den |-> Abs(d)]

\* "%.2f" / "%6.4f": the percentage with the given number of decimals
\* (whole part and fraction are scaled apart to stay within the integers)
FormatFixed(p, decimals) ==
    IF p.cls = "finite"
    THEN LET a == Abs(p.num)
             mag == (a \div p.den) * Pow10(decimals)
                      + RoundDiv((a % p.den) * Pow10(decimals), p.den)
         IN  [cls |-> "finite", scaled |-> IF p.num < 0 THEN -mag ELSE mag]
    ELSE [cls |-> p.cls, scaled |-> 0]

\* line 400 rounding to the nearest count instead of truncating
filled_length_of_rounded(p) ==
    IF p.cls = "finite" THEN RoundDiv(BAR_LENGTH * p.num, 100 * p.den) ELSE nan_to_int

\* line 400: (int)(BAR_LENGTH * percentage / 100.0); not finite: no defined result
filled_length_of(p) ==
    IF p.cls = "finite" THEN TruncDiv(BAR_LENGTH * p.num, 100 * p.den) ELSE nan_to_int

\* lines 373-382; every comparison with a NaN is false
get_gradient_color(p) ==
    LET ge(x) == \/ p.cls = "inf"
                 \/ p.cls = "finite" /\ p.num >= x * p.den
    IN  IF ge(80) THEN "BRIGHT_RED"
        ELSE IF ge(60) THEN "RED"
        ELSE IF ge(40) THEN "MAGENTA"
        ELSE IF ge(25) THEN "BRIGHT_YELLOW"
        ELSE IF ge(15) THEN "YELLOW"
        ELSE IF ge(5) THEN "BRIGHT_GREEN"
        ELSE IF p.cls = "inf" \/ (p.cls = "finite" /\ 10 * p.num > p.den) THEN "GREEN"
        ELSE "BLUE"

(* ---- compare_times / qsort ---------------------------------------------*)
\* lines 364-371 with the two results exchanged: ascending
compare_times_ascending(ta, tb) ==
    IF tb.time_us > ta.time_us THEN -1
    ELSE IF tb.time_us < ta.time_us THEN 1
    ELSE 0

\* lines 364-371
compare_times(ta, tb) ==
    IF tb.time_us > ta.time_us THEN 1
    ELSE IF tb.time_us < ta.time_us THEN -1
    ELSE 0

Rearrangements(n) ==
    {p \in [0 .. n - 1 -> 0 .. n - 1] : \A i, j \in 0 .. n - 1 : p[i] = p[j] => i = j}

\* line 390: the arrays qsort may leave when called with compare_times:
\* base[0..nmemb) rearranged so that no element compares greater than a
\* later one; the order of equal elements is open
qsort(base, nmemb) ==
    { [i \in DOMAIN base |-> IF i < nmemb THEN base[p[i]] ELSE base[i]] :
        p \in { q \in Rearrangements(nmemb) :
                  \A i, j \in 0 .. nmemb - 1 :
                      i < j => compare_times(base[q[i]], base[q[j]]) <= 0 } }

(* ---- print_bench -------------------------------------------------------*)
\* line 438
RawLine(e) == [kind |-> "raw", name |-> CStr(e.function_name), time_us |-> e.time_us]

\* lines 437-439
print_bench_out(t, n) == [i \in 1 .. n |-> RawLine(t[i - 1])]

print_bench ==
    /\ out' = print_bench_out(timings, timing_index)
    /\ err' = <<>> /\ divs' = <<>> /\ sorts' = 0 /\ written' = -1
    /\ op' = "print_bench" /\ reranked' = FALSE
    /\ UNCHANGED <<store, clock, nan_to_int, calls>>

(* ---- print_bench_json --------------------------------------------------*)
Text(s) == [kind |-> "text", text |-> s]

\* lines 426-431 with the comma written after every entry
JsonLine_comma_always(t, total, n, i) ==
    [kind |-> "json",
     name |-> CStr(t[i].function_name),
     time_us |-> t[i].time_us,
     percentage |-> FormatFixed(Percentage(t[i].time_us, total), 2),
     comma |-> TRUE]

\* lines 426-431
JsonLine(t, total, n, i) ==
    [kind |-> "json",
     name |-> CStr(t[i].function_name),
     time_us |-> t[i].time_us,
     percentage |-> FormatFixed(Percentage(t[i].time_us, total), 2),
     comma |-> (i < n - 1)]

print_bench_json_out(t, total, n) ==
    << Text(">>>{") >>
      \o [i \in 1 .. n |-> JsonLine(t, total, n, i - 1)]
      \o << Text("}<<<") >>

print_bench_json ==
    /\ out' = print_bench_json_out(timings, total_time, timing_index)
    /\ divs' = [i \in 1 .. timing_index |-> [line |-> 426, by_zero |-> total_time = 0]]
    /\ err' = <<>> /\ sorts' = 0 /\ written' = -1
    /\ op' = "print_bench_json" /\ reranked' = FALSE
    /\ UNCHANGED <<store, clock, nan_to_int, calls>>

(* ---- print_bench_ranked ------------------------------------------------*)
NoData == Text("No benchmark data available.")
Border == Text("---------------------------------------------------------")
Header == [kind |-> "header", cols |-> <<"Function", "Exec Time", "% of total runtime">>]

\* lines 399-412: the table row of entry e
RankedRow(e, total, max_time) ==
    [kind |-> "row",
     color |-> get_gradient_color(Percentage(e.time_us, max_time)),
     name |-> CStr(e.function_name),
     time_str |-> format_scaled(Real(e.time_us, scales[scale_micro_idx].exp10), "s"),
     percentage |-> FormatFixed(Percentage(e.time_us, total), 4)]

\* lines 414-417: the bar under the row
RankedBar(e, total) ==
    LET filled_length == filled_length_of(Percentage(e.time_us, total))
    IN  [kind |-> "bar",
         filled |-> Max(0, filled_length),
         empty |-> Max(0, SubInt(BAR_LENGTH, filled_length))]

\* divisions of one pass through the loop body, lines 399-405
RankedDivs(e, total, max_time) ==
    << [line |-> 399, by_zero |-> total = 0], [line |-> 400, by_zero |-> FALSE] >>
      \o format_scaled_divs(Real(e.time_us, scales[scale_micro_idx].exp10))
      \o << [line |-> 405, by_zero |-> max_time = 0] >>

RECURSIVE Flatten(_)
Flatten(ss) == IF ss = <<>> THEN <<>> ELSE Head(ss) \o Flatten(Tail(ss))

\* lines 392-420 with the bars drawn as shares of the largest duration
print_bench_ranked_out_of_max(t, total, n) ==
    << Border, Header, Border >>
      \o Flatten([i \in 1 .. n |->
                    << RankedRow(t[i - 1], total, t[0].time_us),
                       RankedBar(t[i - 1], t[0].time_us) >>])
      \o << Border >>

\* lines 392-420: what is printed for the sorted entries t[0..n)
print_bench_ranked_out(t, total, n) ==
    << Border, Header, Border >>
      \o Flatten([i \in 1 .. n |->
                    << RankedRow(t[i - 1], total, t[0].time_us), RankedBar(t[i - 1], total) >>])
      \o << Border >>

\* line 385, with the test left out
NoEntries_never(idx) == FALSE
\* line 385
NoEntries(idx) == idx = 0

\* line 390: the element count handed to qsort; sorting the whole array
ranked_nmemb_capacity(idx) == MAX_FUNS_TO_BENCH
\* line 390
ranked_nmemb(idx) == idx

\* lines 392-420 printing the array as it was before the sort
print_bench_ranked_body_unsorted(sorted) ==
    /\ timings' = sorted
    /\ out' = print_bench_ranked_out(timings, total_time, timing_index)
    /\ divs' = Flatten([i \in 1 .. timing_index |->
                           RankedDivs(timings[i - 1], total_time, timings[0].time_us)])

\* lines 390-420, sorted being the array qsort left
print_bench_ranked_body(sorted) ==
    /\ timings' = sorted
    /\ out' = print_bench_ranked_out(sorted, total_time, timing_index)
    /\ divs' = Flatten([i \in 1 .. timing_index |->
                           RankedDivs(sorted[i - 1], total_time, sorted[0].time_us)])

print_bench_ranked ==
    IF NoEntries(timing_index)
    THEN /\ out' = << NoData >>
         /\ err' = <<>> /\ divs' = <<>> /\ sorts' = 0 /\ written' = -1
         /\ op' = "print_bench_ranked" /\ reranked' = (op = "print_bench_ranked")
         /\ UNCHANGED <<store, clock, nan_to_int, calls>>
    ELSE \E sorted \in qsort(timings, ranked_nmemb(timing_index)) :
         /\ print_bench_ranked_body(sorted)
         /\ err' = <<>> /\ sorts' = 1 /\ written' = -1
         /\ op' = "print_bench_ranked" /\ reranked' = (op = "print_bench_ranked")
         /\ protocol' = "other" /\ hist' = <<>>
         /\ UNCHANGED <<total_time, start_time, timing_index, clock, nan_to_int, mark>>

(* ---- specification -----------------------------------------------------*)
Threads == {1, 2}

\* no thread has started
InitThreads ==
    /\ thr = [t \in Threads |->
                [pc |-> "idle", end_time |-> 0, reg |-> 0, from |-> 0, alone |-> FALSE]]
    /\ mark_by = 0

\* nothing applied on its own, no mark overwritten, no thread started
InitAux ==
    /\ arg = <<>> /\ ret = <<>>
    /\ discarded = -1
    /\ InitThreads

\* static benchmark_t benchmarks: zero-initialised storage
InitBench ==
    /\ total_time = 0
    /\ start_time = 0
    /\ timing_index = 0
    /\ timings = [i \in 0 .. MAX_FUNS_TO_BENCH - 1 |-> time_info(0, EmptyName)]
    /\ clock = 0
    /\ nan_to_int \in {INT_MIN, 0}
    /\ op = "start" /\ reranked = FALSE
    /\ out = <<>> /\ err = <<>> /\ divs = <<>> /\ sorts = 0 /\ written = -1
    /\ protocol = "other" /\ mark = 0 /\ hist = <<>>

Init == InitBench /\ InitAux

\* one call of the API by the single thread of the program
Next ==
    \/ benchmark_init /\ UNCHANGED aux
    \/ START_TIMING /\ UNCHANGED aux
    \/ END_TIMING /\ UNCHANGED aux
    \/ print_bench /\ UNCHANGED aux
    \/ print_bench_json /\ UNCHANGED aux
    \/ print_bench_ranked /\ UNCHANGED aux

Spec == Init /\ [][Next]_vars

(* ---- record_timing's label copy, applied on its own --------------------*)
\* labels of every length up to two past the buffer size
LabelInputs == UNION { [1 .. n -> {"a", "b"}] : n \in 0 .. MAX_FUNS_NAME_LENGTH + 2 }

\* the function_name buffer of an entry followed by the first byte of what
\* lies behind it; the buffer is as static storage or an earlier call left it
NameRegions ==
    { [k \in 0 .. MAX_FUNS_NAME_LENGTH |->
         IF k = MAX_FUNS_NAME_LENGTH THEN "next"
         ELSE IF k = MAX_FUNS_NAME_LENGTH - 1 THEN NUL ELSE c] : c \in {NUL, "z"} }

InitName ==
    /\ InitBench
    /\ arg \in NameRegions \X LabelInputs
    /\ ret = <<>>
    /\ discarded = -1
    /\ InitThreads

\* lines 312-317 on the region arg[1] with the label arg[2]
call_StoreName ==
    /\ arg # <<>> /\ ret = <<>>
    /\ ret' = << StoreName(arg[1], arg[2]) >>
    /\ UNCHANGED <<bench, arg, discarded, threads>>

NextName == call_StoreName

SpecName == InitName /\ [][NextName]_vars

(* ---- get_scale, applied on its own --------------------------------------*)
\* decimal exponents of the values handed to get_scale: from below the nano
\* scale to above the tera scale
MaxExp10 == 13
MinExp10 == -MaxExp10
Mantissas == {0, 1, -1, 15, -15, 123, 999, 1000}

InitScale ==
    /\ InitBench
    /\ arg \in { << Real(m, e) >> : m \in Mantissas, e \in MinExp10 .. MaxExp10 }
    /\ ret = <<>>
    /\ discarded = -1
    /\ InitThreads

\* lines 322-333 on the value arg[1]; the scale is returned as its index
call_get_scale ==
    /\ arg # <<>> /\ ret = <<>>
    /\ ret' = << get_scale(arg[1]) >>
    /\ UNCHANGED <<bench, arg, discarded, threads>>

NextScale == call_get_scale

SpecScale == InitScale /\ [][NextScale]_vars

(* ---- print_bench_ranked on a store of given durations -------------------*)
\* durations in microseconds as a real clock yields them
Durations == {0, 1000, 2000, 3000}
\* the labels of the entries, in recording order
EntryLabels == << <<"a">>, <<"b">>, <<"c">>, <<"d">>, <<"e">> >>

\* the store after benchmark_init and n START_TIMING / END_TIMING pairs
\* lasting d[1], ..., d[n], each pair starting when the one before ended
Recorded(d) ==
    LET n == Len(d)
        t == [i \in 0 .. MAX_FUNS_TO_BENCH - 1 |->
                IF i < n THEN time_info(d[i + 1], StoreName(EmptyName, EntryLabels[i + 1]))
                ELSE time_info(0, EmptyName)]
    IN  [timings |-> t, timing_index |-> n, total_time |-> SumTimes(t, n),
         start_time |-> IF n = 0 THEN 0 ELSE SumTimes(t, n - 1)]

InitRanked ==
    /\ \E n \in 0 .. MAX_FUNS_TO_BENCH : \E d \in [1 .. n -> Durations] :
          /\ timings = Recorded(d).timings
          /\ timing_index = Recorded(d).timing_index
          /\ total_time = Recorded(d).total_time
          /\ start_time = Recorded(d).start_time
          /\ clock = Recorded(d).total_time
          /\ mark = Recorded(d).start_time
    /\ nan_to_int \in {INT_MIN, 0}
    /\ op = "start" /\ reranked = FALSE
    /\ out = <<>> /\ err = <<>> /\ divs = <<>> /\ sorts = 0 /\ written = -1
    /\ protocol = "other" /\ hist = <<>>
    /\ InitAux

NextRanked == print_bench_ranked /\ UNCHANGED aux

SpecRanked == InitRanked /\ [][NextRanked]_vars

(* ---- the timer calls, with the overwritten mark kept --------------------*)
NextTimer ==
    \/ /\ benchmark_init
       /\ discarded' = -1
       /\ UNCHANGED <<arg, ret, threads>>
    \/ /\ START_TIMING
       /\ discarded' = (IF op = "START_TIMING" THEN start_time ELSE -1)
       /\ UNCHANGED <<arg, ret, threads>>
    \/ /\ END_TIMING
       /\ discarded' = (IF op = "START_TIMING" THEN discarded ELSE -1)
       /\ UNCHANGED <<arg, ret, threads>>

SpecTimer == Init /\ [][NextTimer]_vars

(* ---- two threads, each running START_TIMING(); END_TIMING(label) ---------*)
\* The store has no lock and its fields are plain objects: every load and
\* store of a thread may fall between those of the other. A statement is a
\* step; the two read-modify-write statements (+= and ++) are a load step
\* and a store step.
ThreadLabel(t) == IF t = 1 THEN <<"a">> ELSE <<"b">>

At(t, line) == thr[t].pc = line
Goto(t, line) == [thr EXCEPT ![t].pc = line]
Others == <<nan_to_int, op, reranked, out, err, divs, sorts, written, calls,
            arg, ret, discarded>>

\* line 210: benchmarks.start_time = get_time_us()
t_START_TIMING(t) ==
    /\ At(t, "idle")
    /\ \E now \in get_time_us :
          /\ start_time' = now
          /\ clock' = now
    /\ mark_by' = t
    /\ thr' = [thr EXCEPT ![t].pc = "303",
                          ![t].alone = \A u \in Threads \ {t} : thr[u].pc \in {"idle", "done"}]
    /\ UNCHANGED <<total_time, timings, timing_index, Others>>

\* lines 303-306: the capacity test; two calls on the empty store pass it
t_guard(t) ==
    /\ At(t, "303")
    /\ thr' = Goto(t, IF AtCapacity(timing_index) THEN "done" ELSE "308")
    /\ UNCHANGED <<store, clock, mark_by, Others>>

\* line 308
t_get_time(t) ==
    /\ At(t, "308")
    /\ \E now \in get_time_us :
          /\ clock' = now
          /\ thr' = [thr EXCEPT ![t].pc = "309", ![t].end_time = now]
    /\ UNCHANGED <<store, mark_by, Others>>

\* line 309: reads timing_index and start_time, writes the entry's time_us
t_duration(t) ==
    /\ At(t, "309")
    /\ timings' = StoreAt(timings, timing_index,
                          time_info(Elapsed(thr[t].end_time, start_time),
                                    NameAt(timings, timing_index)))
    /\ thr' = [thr EXCEPT ![t].pc = "310", ![t].from = mark_by]
    /\ UNCHANGED <<total_time, start_time, timing_index, clock, mark_by, Others>>

\* line 310, the load: total_time and the entry's time_us are read and added
t_total_load(t) ==
    /\ At(t, "310")
    /\ thr' = [thr EXCEPT ![t].pc = "310 store",
                          ![t].reg = AddTotal(total_time, timings[timing_index].time_us)]
    /\ UNCHANGED <<store, clock, mark_by, Others>>

\* line 310, the store
t_total_store(t) ==
    /\ At(t, "310 store")
    /\ total_time' = thr[t].reg
    /\ thr' = Goto(t, "312")
    /\ UNCHANGED <<start_time, timings, timing_index, clock, mark_by, Others>>

\* lines 312-317
t_name(t) ==
    /\ At(t, "312")
    /\ timings' = StoreAt(timings, timing_index,
                          time_info(timings[timing_index].time_us,
                                    StoreName(NameAt(timings, timing_index),
                                              ThreadLabel(t))))
    /\ thr' = Goto(t, "319")
    /\ UNCHANGED <<total_time, start_time, timing_index, clock, mark_by, Others>>

\* line 319, the load
t_index_load(t) ==
    /\ At(t, "319")
    /\ thr' = [thr EXCEPT ![t].pc = "319 store", ![t].reg = timing_index + 1]
    /\ UNCHANGED <<store, clock, mark_by, Others>>

\* line 319, the store
t_index_store(t) ==
    /\ At(t, "319 store")
    /\ timing_index' = thr[t].reg
    /\ thr' = Goto(t, "done")
    /\ UNCHANGED <<total_time, start_time, timings, clock, mark_by, Others>>

NextThreads ==
    \E t \in Threads :
        \/ t_START_TIMING(t)
        \/ t_guard(t)
        \/ t_get_time(t)
        \/ t_duration(t)
        \/ t_total_load(t)
        \/ t_total_store(t)
        \/ t_name(t)
        \/ t_index_load(t)
        \/ t_index_store(t)

SpecThreads == Init /\ [][NextThreads]_vars

(* ---- properties ---------------------------------------------------------*)
Reporters == {"print_bench", "print_bench_json", "print_bench_ranked"}
Diagnostic == << "Error: Exceeded maximum number of benchmarked functions!" >>

\* the first n characters of a label, all of it when it is shorter
Prefix(label, n) == [k \in 1 .. Min(n, Len(label)) |-> label[k]]

\* t[0..n) is in descending order of time_us
Descending(t, n) == \A i \in 0 .. n - 2 : t[i].time_us >= t[i + 1].time_us

\* C1: in every reachable state total_time is the sum of time_us over the
\* stored entries timings[0..timing_index).
C1_TotalIsSum == total_time = SumTimes(timings, timing_index)

C1_Witness ==
    /\ op = "record_timing" /\ written = 1
    /\ timings[0].time_us > 0 /\ timings[1].time_us > 0

\* C2: the number of stored entries never exceeds MAX_FUNS_TO_BENCH and no
\* call stores an entry at an index at or past the capacity.
C2_WithinCapacity ==
    /\ timing_index <= MAX_FUNS_TO_BENCH
    /\ written < MAX_FUNS_TO_BENCH

\* an END_TIMING made on the full store
C2_Witness ==
    /\ op = "record_timing" /\ err # <<>>
    /\ timing_index = MAX_FUNS_TO_BENCH

\* C3: record_timing on a full store changes no field of the store, writes
\* the diagnostic to stderr, and the next call can still be made.
C3_RejectedAtCapacity ==
    /\ [][(timing_index = MAX_FUNS_TO_BENCH /\ op' = "record_timing")
            => /\ UNCHANGED <<total_time, start_time, timings, timing_index>>
               /\ written' = -1
               /\ err' = Diagnostic
               /\ out' = <<>>]_vars
    /\ [](timing_index = MAX_FUNS_TO_BENCH => ENABLED Next)

\* a rejected call on a store whose total and start mark are not zero
C3_Witness ==
    /\ op = "record_timing" /\ err = Diagnostic
    /\ timing_index = MAX_FUNS_TO_BENCH
    /\ total_time > 0 /\ start_time > 0

\* C4: after benchmark_init and N <= capacity whole START/END pairs (no
\* ranked report in between) timing_index is N and entry i holds the label
\* of the i-th END_TIMING (as far as the name buffer takes it) and the stop
\* reading minus the matching start reading.
C4_RecordingOrder ==
    protocol \in {"idle", "started"} =>
        /\ timing_index = Len(hist)
        /\ \A i \in 0 .. Len(hist) - 1 :
              /\ timings[i].time_us = hist[i + 1].t1 - hist[i + 1].t0
              /\ CStr(timings[i].function_name)
                    = Prefix(hist[i + 1].label, MAX_FUNS_NAME_LENGTH - 1)

C4_Witness ==
    /\ protocol = "idle"
    /\ timing_index = MAX_FUNS_TO_BENCH
    /\ hist[1].label # hist[2].label
    /\ hist[1].t0 > 0
    /\ timings[0].time_us < timings[1].time_us

\* C5: benchmark_init, from any state, zeroes timing_index, total_time and
\* start_time; the reporters then show no entry, and the first entry
\* recorded afterwards goes to index 0.
C5_InitResets ==
    /\ [][op' = "benchmark_init"
            => /\ timing_index' = 0 /\ total_time' = 0 /\ start_time' = 0
               /\ print_bench_out(timings', timing_index') = <<>>
               /\ print_bench_json_out(timings', total_time', timing_index')
                     = << Text(">>>{"), Text("}<<<") >>
               /\ NoEntries(timing_index')]_vars
    /\ [][(timing_index = 0 /\ op' = "record_timing")
            => /\ written' = 0 /\ timing_index' = 1
               /\ total_time' = timings'[0].time_us]_vars

\* benchmark_init has run on a store that held entries
C5_Witness ==
    /\ op = "benchmark_init"
    /\ timings[1].function_name # EmptyName
    /\ clock > 0

\* C6: print_bench_ranked on a non-empty store leaves the entries in
\* descending order of time_us and holding the same bag of entries.
C6_SortedSameEntries ==
    [][(op' = "print_bench_ranked" /\ timing_index > 0)
        => /\ Descending(timings', timing_index')
           /\ EntryBag(timings', timing_index') = EntryBag(timings, timing_index)]_vars

\* a ranked report of a full store with a tie and two different durations
C6_Witness ==
    /\ op = "print_bench_ranked" /\ timing_index = MAX_FUNS_TO_BENCH
    /\ timings[0].time_us > timings[1].time_us
    /\ timings[1].time_us = timings[2].time_us
    /\ timings[1].function_name # timings[2].function_name

\* an output line with the label blanked
Unlabelled(l) == IF l.kind = "row" THEN [l EXCEPT !.name = <<>>] ELSE l

\* no other stored entry has the duration of entry i
OnlyDuration(t, n, i) == \A j \in 0 .. n - 1 : t[j].time_us = t[i].time_us => j = i

\* C7 as stated: a second print_bench_ranked right after the first prints
\* the same lines and leaves every entry where it was.
C7_SecondCallIdentical ==
    [][(op = "print_bench_ranked" /\ op' = "print_bench_ranked")
        => /\ out' = out
           /\ timings' = timings]_vars

\* C7: a second print_bench_ranked right after the first leaves the
\* durations in the same order and prints the same lines up to the labels;
\* an entry whose duration no other entry shares stays in place and its
\* row is printed again unchanged.
C7_SecondCallSameUpToTies ==
    [][(op = "print_bench_ranked" /\ op' = "print_bench_ranked")
        => /\ \A i \in 0 .. timing_index - 1 :
                 /\ timings'[i].time_us = timings[i].time_us
                 /\ OnlyDuration(timings, timing_index, i)
                       => /\ timings'[i] = timings[i]
                          /\ out'[4 + 2 * i] = out[4 + 2 * i]
           /\ EntryBag(timings', timing_index) = EntryBag(timings, timing_index)
           /\ Len(out') = Len(out)
           /\ \A k \in DOMAIN out : Unlabelled(out'[k]) = Unlabelled(out[k])]_vars

\* two ranked reports in a row over entries of which two share a duration
\* under different labels and a third has a duration of its own
C7_Witness ==
    /\ op = "print_bench_ranked" /\ reranked
    /\ timing_index = 3
    /\ \E i, j \in 0 .. 2 :
          /\ i # j
          /\ timings[i].time_us = timings[j].time_us
          /\ timings[i].function_name # timings[j].function_name
    /\ \E i \in 0 .. 2 : OnlyDuration(timings, timing_index, i)

\* C8: no reporter changes total_time, timing_index or start_time;
\* print_bench and print_bench_json leave timings[] as it is, and
\* print_bench_ranked only rearranges the stored entries.
C8_ReportersFrame ==
    [][op' \in Reporters
        => /\ UNCHANGED <<total_time, timing_index, start_time>>
           /\ op' # "print_bench_ranked" => timings' = timings
           /\ op' = "print_bench_ranked"
                 => /\ EntryBag(timings', timing_index) = EntryBag(timings, timing_index)
                    /\ \A i \in timing_index .. MAX_FUNS_TO_BENCH - 1 :
                          timings'[i] = timings[i]]_vars

\* a ranked report on a store with a start mark, a total, two entries of
\* different durations and a left-over entry past timing_index
C8_Witness ==
    /\ op = "print_bench_ranked" /\ timing_index = 2
    /\ start_time > 0 /\ total_time > 0
    /\ timings[2].function_name # EmptyName
    /\ timings[0].time_us > timings[1].time_us

\* C9 as stated: with entries stored and a total of zero, print_bench_json
\* and print_bench_ranked divide by no zero and report each percentage as 0.
C9_ZeroTotalGuarded ==
    (op \in {"print_bench_json", "print_bench_ranked"}
        /\ timing_index > 0 /\ total_time = 0)
    => /\ \A k \in DOMAIN divs : ~divs[k].by_zero
       /\ \A k \in DOMAIN out :
             out[k].kind \in {"json", "row"}
               => out[k].percentage = [cls |-> "finite", scaled |-> 0]

\* C10: on a store with no entry print_bench_json writes the two markers
\* only and print_bench_ranked the no-data notice only; neither divides,
\* the ranked report does not sort, and the store is left as it was.
C10_EmptyStore ==
    [][(timing_index = 0 /\ op' \in {"print_bench_json", "print_bench_ranked"})
        => /\ op' = "print_bench_json" => out' = << Text(">>>{"), Text("}<<<") >>
           /\ op' = "print_bench_ranked" => (out' = << NoData >> /\ sorts' = 0)
           /\ divs' = <<>>
           /\ UNCHANGED <<total_time, start_time, timings, timing_index>>]_vars

\* the ranked report of a store emptied by benchmark_init
C10_Witness ==
    /\ op = "print_bench_ranked" /\ timing_index = 0
    /\ out = << NoData >>
    /\ timings[0].function_name # EmptyName


\* C15: every row print_bench_ranked prints, the durations being
\* non-negative and total_time positive, has floor(BAR_LENGTH * duration /
\* total_time) filled glyphs, a count within 0..BAR_LENGTH, and filled plus
\* empty glyphs make BAR_LENGTH; each stored entry gets exactly one data row
\* and one bar row.
C15_BarRows ==
    (/\ op = "print_bench_ranked" /\ timing_index > 0 /\ total_time > 0
     /\ \A i \in 0 .. timing_index - 1 : timings[i].time_us >= 0)
    => /\ Len(out) = 4 + 2 * timing_index
       /\ Cardinality({k \in 1 .. Len(out) : out[k].kind = "row"}) = timing_index
       /\ Cardinality({k \in 1 .. Len(out) : out[k].kind = "bar"}) = timing_index
       /\ \A i \in 0 .. timing_index - 1 :
            LET row == out[4 + 2 * i]
                bar == out[5 + 2 * i]
            IN  /\ row.kind = "row" /\ row.name = CStr(timings[i].function_name)
                /\ bar.kind = "bar"
                /\ bar.filled = (BAR_LENGTH * timings[i].time_us) \div total_time
                /\ bar.filled \in 0 .. BAR_LENGTH
                /\ bar.filled + bar.empty = BAR_LENGTH

\* durations 2 and 1 of a total of 3: 13 and 6 glyphs, both counts cut down
C15_Witness ==
    /\ op = "print_bench_ranked" /\ timing_index = 2 /\ total_time = 3
    /\ out[5].filled = 13 /\ out[5].empty = 7
    /\ out[7].filled = 6 /\ out[7].empty = 14

\* C16: print_bench_json writes, between the opening and the closing marker,
\* one line per stored entry in storage order; every entry line but the last
\* ends with a comma, and the last (the only one, of a single entry) has none.
C16_JsonLines ==
    op = "print_bench_json"
    => /\ Len(out) = timing_index + 2
       /\ out[1] = Text(">>>{")
       /\ out[Len(out)] = Text("}<<<")
       /\ \A i \in 1 .. timing_index :
            /\ out[i + 1].kind = "json"
            /\ out[i + 1].name = CStr(timings[i - 1].function_name)
            /\ out[i + 1].time_us = timings[i - 1].time_us
            /\ out[i + 1].comma = (i # timing_index)

\* three entries not in descending order, the marker lines around them
C16_Witness ==
    /\ op = "print_bench_json" /\ timing_index = MAX_FUNS_TO_BENCH
    /\ timings[0].time_us < timings[1].time_us
    /\ out[2].comma /\ ~out[timing_index + 1].comma

\* C18: record_timing leaves start_time as it was. An END_TIMING that follows
\* another END_TIMING with no START_TIMING in between is stored like any
\* other, measured from the same mark (from 0 when it follows benchmark_init
\* directly): its duration is the previous entry's plus the time passed
\* since, so not smaller, and total_time counts the previous interval again.
C18_StaleMarkReused ==
    [][(op' = "record_timing" /\ written' # -1)
         => /\ start_time' = start_time
            /\ err' = <<>>
            /\ timings'[written'].time_us = clock' - start_time
            /\ total_time' = total_time + (clock' - start_time)
            /\ (op = "benchmark_init" => timings'[written'].time_us = clock')
            /\ (op = "record_timing" /\ written # -1
                  => /\ written' = written + 1
                     /\ timings'[written'].time_us
                          = timings[written].time_us + (clock' - clock)
                     /\ timings'[written'].time_us >= timings[written].time_us)]_vars

\* END_TIMING at 1 and again at 2, the mark still 0: entries 1 and 2, the
\* first microsecond counted twice in the total of 3
C18_Witness ==
    /\ op = "record_timing" /\ written = 1 /\ start_time = 0
    /\ timings[0].time_us = 1 /\ timings[1].time_us = 2
    /\ total_time = 3

\* C11: whatever the length of the label handed to record_timing, the name
\* left in the entry has a terminator within its MAX_FUNS_NAME_LENGTH bytes,
\* has at most MAX_FUNS_NAME_LENGTH - 1 characters, is the label itself when
\* that fits and its first MAX_FUNS_NAME_LENGTH - 1 characters otherwise; no
\* byte outside the buffer is changed.
C11_LabelStored ==
    ret # <<>>
    => LET dest == arg[1]
           label == arg[2]
           name == ret[1]
       IN  /\ \E k \in 0 .. MAX_FUNS_NAME_LENGTH - 1 : name[k] = NUL
           /\ Len(CStr(name)) <= MAX_FUNS_NAME_LENGTH - 1
           /\ CStr(name) = IF Len(label) <= MAX_FUNS_NAME_LENGTH - 1 THEN label
                           ELSE SubSeq(label, 1, MAX_FUNS_NAME_LENGTH - 1)
           /\ \A k \in DOMAIN dest :
                k > MAX_FUNS_NAME_LENGTH - 1 => name[k] = dest[k]

\* a label longer than the buffer copied over an earlier name
C11_Witness ==
    /\ ret # <<>>
    /\ Len(arg[2]) > MAX_FUNS_NAME_LENGTH /\ arg[1][0] = "z"
    /\ Len(CStr(ret[1])) = MAX_FUNS_NAME_LENGTH - 1

\* |v| >= 10^x for v = m * 10^e with |m| < 10^9
AtLeastPow10(v, x) ==
    IF v.e >= x THEN v.m # 0
    ELSE IF x - v.e > 9 THEN FALSE
    ELSE Abs(v.m) >= Pow10(x - v.e)

\* the scales 10^-9 (nano), 10^-6, ..., 10^12 (tera) by index
ScaleExp10(i) == <<-9, -6, -3, 0, 3, 6, 9, 12>>[i + 1]

\* C12: get_scale(v) returns the largest scale of the table, nano = 10^-9 up
\* to tera = 10^12 in steps of 1000, whose divisor d has |v / d| >= 1, and
\* the nano scale when v is 0 or no scale has; so 0.0 and 0.000000123 give
\* nano, 1500.0 gives kilo, 1.5e12 and every |v| >= 1e12 give tera.
C12_LargestScale ==
    ret # <<>>
    => LET v == arg[1]
           s == ret[1]
           fits == {i \in 0 .. 7 : AtLeastPow10(v, ScaleExp10(i))}
       IN  /\ s \in 0 .. 7
           /\ scales[s].exp10 = ScaleExp10(s)
           /\ (fits # {} => s \in fits /\ \A i \in fits : i <= s)
           /\ (fits = {} => s = 0)
           /\ (v.m = 0 => s = 0)
           /\ (v = Real(0, 0) => scales[s].suffix = "n")
           /\ (v = Real(123, -9) => scales[s].suffix = "n")
           /\ (v = Real(15, 2) => scales[s].suffix = "k")
           /\ (v = Real(15, 11) => scales[s].suffix = "T")
           /\ (AtLeastPow10(v, 12) => scales[s].suffix = "T")

\* 1500.0 was scaled: several scales fit and the largest, kilo, is returned
C12_Witness ==
    /\ ret # <<>>
    /\ arg[1] = Real(15, 2)
    /\ ret[1] = 4

\* the labels of the rows print_bench_ranked printed, top to bottom
RowLabels == [i \in 1 .. timing_index |-> out[2 + 2 * i].name]

\* C13 as stated: in print_bench_ranked the bar of the entry with the largest
\* duration, the first row, is filled over the whole BAR_LENGTH.
C13_MaxBarFull ==
    (op = "print_bench_ranked" /\ timing_index > 0 /\ total_time > 0)
    => out[5].filled = BAR_LENGTH

\* C13 amended: the first row is the entry with the largest duration and its
\* bar, like every bar, shows its share of total_time: floor(BAR_LENGTH * max
\* / total_time) glyphs, the whole BAR_LENGTH only when every other duration
\* is 0. On {a:1000, b:3000, c:2000} the rows are b, c, a and b's bar has 10
\* of 20 glyphs filled.
C13_MaxBarIsShareOfTotal ==
    (op = "print_bench_ranked" /\ timing_index > 0 /\ total_time > 0)
    => /\ \A i \in 0 .. timing_index - 1 : timings[i].time_us <= timings[0].time_us
       /\ out[4].name = CStr(timings[0].function_name)
       /\ out[5].filled = (BAR_LENGTH * timings[0].time_us) \div total_time
       /\ (out[5].filled = BAR_LENGTH <=> timings[0].time_us = total_time)
       /\ (/\ timing_index = 3
           /\ EntryBag(timings, 3)
                = EntryBag(Recorded(<<1000, 3000, 2000>>).timings, 3)
           => /\ RowLabels = << <<"b">>, <<"c">>, <<"a">> >>
              /\ out[5].filled = 10 /\ out[5].empty = BAR_LENGTH - 10)

\* the ranked report of a:1000, b:3000, c:2000
C13_Witness ==
    /\ op = "print_bench_ranked" /\ timing_index = 3 /\ total_time = 6000
    /\ RowLabels = << <<"b">>, <<"c">>, <<"a">> >>
    /\ timings[0].time_us = 3000
    /\ out[5].filled = 10

\* C14: a START_TIMING that follows a START_TIMING with no END_TIMING in
\* between overwrites the pending mark and changes nothing else of the store:
\* no entry is added, timing_index and total_time stay. The END_TIMING after
\* it, at reading t3, records t3 - t2, t2 being the reading of the second
\* START_TIMING; the first reading t1 plays no part.
C14_DoubleStart ==
    /\ [][(op = "START_TIMING" /\ op' = "START_TIMING")
            => /\ start_time' = clock'
               /\ discarded' = start_time
               /\ UNCHANGED <<timings, timing_index, total_time>>]_vars
    /\ [][(discarded # -1 /\ op' = "record_timing" /\ written' # -1)
            => /\ timings'[written'].time_us = clock' - mark
               /\ total_time' = total_time + (clock' - mark)
               /\ timing_index' = timing_index + 1
               /\ (discarded # mark
                     => timings'[written'].time_us # clock' - discarded)]_vars

\* START_TIMING at 0 and at 1, END_TIMING at 2: the entry holds 1, not 2
C14_Witness ==
    /\ op = "record_timing" /\ written # -1
    /\ discarded = 0 /\ start_time = 1 /\ clock = 2
    /\ timings[written].time_us = 1

AllDone == \A t \in Threads : thr[t].pc = "done"

\* C17: the store is not synchronized. Two threads that run START_TIMING and
\* record_timing one after the other leave a consistent store: two entries,
\* each measured from its own thread's mark, total_time their sum. Once
\* their loads and stores interleave this is lost: there are reachable
\* states where a thread's duration was taken from the other thread's mark,
\* where both calls have returned and timing_index is 1, and where
\* total_time is not the sum of the stored durations (C17_Witness).
C17_ConsistentOnlyWhenSerial ==
    (AllDone /\ \A t \in Threads : thr[t].alone)
    => /\ timing_index = Cardinality(Threads)
       /\ total_time = SumTimes(timings, timing_index)
       /\ \A t \in Threads : thr[t].from = t

\* both calls returned: thread 1 measured from thread 2's mark, one entry
\* overwrote the other, and total_time is not the stored sum
C17_Witness ==
    /\ AllDone
    /\ thr[1].from = 2
    /\ timing_index = 1
    /\ total_time # SumTimes(timings, timing_index)
====
